---- MODULE Spec2Model ----
(***************************************************************************)
(* Model of the MLB injury scraper (src/scraper.py): the pipeline          *)
(* scrape_mets_injuries -> _extract_structured_injury_info ->              *)
(* _parse_player_div, with the texts of the document kept as sequences of  *)
(* characters and every regular expression of the source written as a      *)
(* pattern that is matched the way Python's re module matches it           *)
(* (backtracking, alternatives and repetitions tried in priority order,    *)
(* the leftmost match wins).                                               *)
(* A document is the sequence of its elements; the locator, the section    *)
(* and the class filter work on it.  The generator of the event stream of  *)
(* src/http_server.py is a second state machine, StreamSpec.               *)
(***************************************************************************)
EXTENDS Integers, Sequences, FiniteSets, TLC

\* ------------------------------------------------------------------------
\* Characters.  A text is a sequence of one-character strings.
\* ------------------------------------------------------------------------
UpperAZ == {"A","B","C","D","E","F","G","H","I","J","K","L","M","N","O","P","Q","R","S","T","U","V","W","X","Y","Z"}
LowerAZ == {"a","b","c","d","e","f","g","h","i","j","k","l","m","n","o","p","q","r","s","t","u","v","w","x","y","z"}
Digits == {"0","1","2","3","4","5","6","7","8","9"}
\* the accented letters the name pattern of _parse_player_div lists
AccentedLower == {"ñ","ú","é","í","ó","á","ü"}
AccentedUpper == {"Ñ","Ú","É","Í","Ó","Á","Ü"}
\* \s, and what str.strip() removes
WhiteSpace == {" ", "\n", "\t"}
\* \w
WordChars == UpperAZ \cup LowerAZ \cup Digits \cup AccentedLower \cup AccentedUpper \cup {"_"}

\* str.lower(), one character at a time
LowerMap ==
  [c \in UpperAZ \cup AccentedUpper |->
     CASE c = "A" -> "a" [] c = "B" -> "b" [] c = "C" -> "c" [] c = "D" -> "d"
       [] c = "E" -> "e" [] c = "F" -> "f" [] c = "G" -> "g" [] c = "H" -> "h"
       [] c = "I" -> "i" [] c = "J" -> "j" [] c = "K" -> "k" [] c = "L" -> "l"
       [] c = "M" -> "m" [] c = "N" -> "n" [] c = "O" -> "o" [] c = "P" -> "p"
       [] c = "Q" -> "q" [] c = "R" -> "r" [] c = "S" -> "s" [] c = "T" -> "t"
       [] c = "U" -> "u" [] c = "V" -> "v" [] c = "W" -> "w" [] c = "X" -> "x"
       [] c = "Y" -> "y" [] c = "Z" -> "z"
       [] c = "Ñ" -> "ñ" [] c = "Ú" -> "ú" [] c = "É" -> "é" [] c = "Í" -> "í"
       [] c = "Ó" -> "ó" [] c = "Á" -> "á" [] c = "Ü" -> "ü"]
ToLower(c) == IF c \in DOMAIN LowerMap THEN LowerMap[c] ELSE c
Lower(s) == [k \in 1..Len(s) |-> ToLower(s[k])]

RECURSIVE LStrip(_)
LStrip(s) == IF Len(s) > 0 /\ Head(s) \in WhiteSpace THEN LStrip(Tail(s)) ELSE s
RECURSIVE RStrip(_)
RStrip(s) == IF Len(s) > 0 /\ s[Len(s)] \in WhiteSpace THEN RStrip(SubSeq(s, 1, Len(s) - 1)) ELSE s
\* str.strip()
Strip(s) == RStrip(LStrip(s))

\* lit occurs in text at position pos (ic: ignoring case, as re.IGNORECASE)
LitAt(text, pos, lit, ic) ==
  /\ pos + Len(lit) - 1 <= Len(text)
  /\ \A j \in 1..Len(lit) :
       IF ic THEN ToLower(text[pos + j - 1]) = ToLower(lit[j])
             ELSE text[pos + j - 1] = lit[j]
\* the Python test "lit in text"
Contains(text, lit) == \E p \in 1..(Len(text) - Len(lit) + 1) : LitAt(text, p, lit, FALSE)

\* ------------------------------------------------------------------------
\* Patterns.  A pattern is a sequence of items:
\*   Lit(s)            the literal s              LitI(s)  under re.IGNORECASE
\*   Cls(cs,min,max)   min..max characters of cs, greedy (max < 0: no limit)
\*   NotCls, Lazy...   negated classes and lazy repetitions
\*   Open(g), Close(g) the parentheses of capture group g
\*   Alt(<<p1,p2,..>>) p1|p2|...                  Rep(p,min,max)  (?:p){min,max}
\*   Bos, Eos, Wb      ^, $ and \b
\* ------------------------------------------------------------------------
Lit(s) == [t |-> "lit", s |-> s, ic |-> FALSE]
LitI(s) == [t |-> "lit", s |-> s, ic |-> TRUE]
Cls(cs, min, max) == [t |-> "set", cs |-> cs, neg |-> FALSE, min |-> min, max |-> max, greedy |-> TRUE]
NotCls(cs, min, max) == [t |-> "set", cs |-> cs, neg |-> TRUE, min |-> min, max |-> max, greedy |-> TRUE]
LazyNotCls(cs, min, max) == [t |-> "set", cs |-> cs, neg |-> TRUE, min |-> min, max |-> max, greedy |-> FALSE]
\* . with re.DOTALL, and . without it
AnyChar == {}
NotNewline == {"\n"}
Open(g) == [t |-> "open", g |-> g]
Close(g) == [t |-> "close", g |-> g]
Alt(alts) == [t |-> "alt", alts |-> alts]
Rep(body, min, max) == [t |-> "rep", body |-> body, min |-> min, max |-> max, greedy |-> TRUE]
Bos == [t |-> "bos"]
Eos == [t |-> "eos"]
Wb == [t |-> "wb"]

NoCaps == << <<0, 0>>, <<0, 0>>, <<0, 0>> >>
NoMatch == [ok |-> FALSE, start |-> 0, end |-> 0, caps |-> NoCaps]

InClass(c, item) == (c \in item.cs) # item.neg

\* how many characters from pos on are in the class of item (at most item.max)
RECURSIVE RunLen(_, _, _, _)
RunLen(text, pos, item, k) ==
  IF /\ pos + k <= Len(text)
     /\ (item.max < 0 \/ k < item.max)
     /\ InClass(text[pos + k], item)
  THEN RunLen(text, pos, item, k + 1)
  ELSE k

IsWord(text, p) == p >= 1 /\ p <= Len(text) /\ text[p] \in WordChars

\* Match(text, items, pos, caps): the first way, in re's priority order, to
\* match the items from position pos on; end is the position after the match.
RECURSIVE Match(_, _, _, _)
RECURSIVE TryCounts(_, _, _, _, _, _, _)
RECURSIVE TryAlts(_, _, _, _, _, _)
TryCounts(text, rest, pos, caps, k, last, step) ==
  LET r == Match(text, rest, pos + k, caps)
  IN  IF r.ok THEN r
      ELSE IF k = last THEN NoMatch
      ELSE TryCounts(text, rest, pos, caps, k + step, last, step)
TryAlts(text, alts, i, rest, pos, caps) ==
  IF i > Len(alts) THEN NoMatch
  ELSE LET r == Match(text, alts[i] \o rest, pos, caps)
       IN  IF r.ok THEN r ELSE TryAlts(text, alts, i + 1, rest, pos, caps)
Match(text, items, pos, caps) ==
  IF Len(items) = 0 THEN [ok |-> TRUE, start |-> 0, end |-> pos, caps |-> caps]
  ELSE
    LET h == Head(items)
        rest == Tail(items)
    IN  CASE h.t = "lit" ->
               IF LitAt(text, pos, h.s, h.ic)
               THEN Match(text, rest, pos + Len(h.s), caps) ELSE NoMatch
          [] h.t = "set" ->
               LET n == RunLen(text, pos, h, 0)
               IN  IF n < h.min THEN NoMatch
                   ELSE IF h.greedy THEN TryCounts(text, rest, pos, caps, n, h.min, -1)
                   ELSE TryCounts(text, rest, pos, caps, h.min, n, 1)
          [] h.t = "open" ->
               Match(text, rest, pos, [caps EXCEPT ![h.g] = <<pos, 0>>])
          [] h.t = "close" ->
               Match(text, rest, pos, [caps EXCEPT ![h.g] = <<caps[h.g][1], pos>>])
          [] h.t = "alt" -> TryAlts(text, h.alts, 1, rest, pos, caps)
          [] h.t = "rep" ->
               LET more == [h EXCEPT !.min = IF h.min > 0 THEN h.min - 1 ELSE 0,
                                     !.max = IF h.max > 0 THEN h.max - 1 ELSE h.max]
                   again == IF h.max = 0 THEN NoMatch
                            ELSE Match(text, h.body \o <<more>> \o rest, pos, caps)
               IN  IF again.ok THEN again
                   ELSE IF h.min > 0 THEN NoMatch
                   ELSE Match(text, rest, pos, caps)
          [] h.t = "bos" ->
               IF pos = 1 THEN Match(text, rest, pos, caps) ELSE NoMatch
          [] h.t = "eos" ->
               IF pos = Len(text) + 1 \/ (pos = Len(text) /\ text[pos] = "\n")
               THEN Match(text, rest, pos, caps) ELSE NoMatch
          [] h.t = "wb" ->
               IF IsWord(text, pos - 1) # IsWord(text, pos)
               THEN Match(text, rest, pos, caps) ELSE NoMatch

\* re.match(pattern, text)
ReMatch(text, items) == Match(text, items, 1, NoCaps)

\* re.search(pattern, text): the match at the leftmost position that has one
RECURSIVE SearchFrom(_, _, _)
SearchFrom(text, items, pos) ==
  IF pos > Len(text) + 1 THEN NoMatch
  ELSE LET r == Match(text, items, pos, NoCaps)
       IN  IF r.ok THEN [r EXCEPT !.start = pos] ELSE SearchFrom(text, items, pos + 1)
ReSearch(text, items) == SearchFrom(text, items, 1)

\* match.group(g)
Group(text, m, g) == SubSeq(text, m.caps[g][1], m.caps[g][2] - 1)
\* match.group(0)
Group0(text, m) == SubSeq(text, m.start, m.end - 1)

\* re.sub(pattern, repl, text) for a pattern that matches no empty string
RECURSIVE SubFrom(_, _, _, _)
SubFrom(text, items, repl, pos) ==
  IF pos > Len(text) THEN <<>>
  ELSE LET r == Match(text, items, pos, NoCaps)
       IN  IF r.ok /\ r.end > pos THEN repl \o SubFrom(text, items, repl, r.end)
           ELSE <<text[pos]>> \o SubFrom(text, items, repl, pos + 1)
ReSub(text, items, repl) == SubFrom(text, items, repl, 1)

\* ------------------------------------------------------------------------
\* Optional values: None is <<>>, a value v is <<v>>.
\* ------------------------------------------------------------------------
None == <<>>
Some(v) == <<v>>
IsSome(o) == Len(o) = 1
Val(o) == o[1]

\* ------------------------------------------------------------------------
\* _extract_structured_injury_info: the filters of the loop over the divs
\* ------------------------------------------------------------------------
\* the filter with the test of one class only
IsStoryPartDiv(div) == Contains(div.class, <<"s","t","o","r","y","-","p","a","r","t">>)
\* class_=lambda x: x and 'story-part' in x and 'markdown' in x, which is
\* true of a div when it is true of its class attribute as one string
IsMarkdownDiv(div) == Contains(div.class, <<"s","t","o","r","y","-","p","a","r","t">>) /\ Contains(div.class, <<"m","a","r","k","d","o","w","n">>)

skip_phrases ==
  << <<"t","h","i","s"," ","p","a","g","e"," ","w","i","l","l"," ","b","e"," ","u","p","d","a","t","e","d">>, <<"l","a","t","e","s","t"," ","i","n","j","u","r","i","e","s">>, <<"g","e","t"," ","t","h","e"," ","l","a","t","e","s","t"," ","f","r","o","m"," ","m","l","b">>,
     <<"s","i","g","n"," ","u","p"," ","t","o"," ","r","e","c","e","i","v","e">>, <<"m","o","r","e"," ","m","e","t","s"," ","i","n","j","u","r","y"," ","n","e","w","s">> >>
\* the test without .lower()
IsSkipDivCaseSensitive(div_text) == \E k \in 1..Len(skip_phrases) : Contains(div_text, skip_phrases[k])
\* any(skip_phrase in div_text.lower() for skip_phrase in [...])
IsSkipDiv(div_text) == \E k \in 1..Len(skip_phrases) : Contains(Lower(div_text), skip_phrases[k])

position_codes ==
  << <<"C">>, <<"1","B">>, <<"2","B">>, <<"3","B">>, <<"S","S">>, <<"L","F">>, <<"C","F">>, <<"R","F">>, <<"O","F">>, <<"I","F">>, <<"P">>, <<"R","H","P">>, <<"L","H","P">>, <<"D","H">>, <<"I","N","F">> >>
\* r'^(C|1B|2B|3B|SS|LF|CF|RF|OF|IF|P|RHP|LHP|DH|INF)\s+'
position_pattern ==
  << Bos, Open(1), Alt([k \in 1..Len(position_codes) |-> <<Lit(position_codes[k])>>]), Close(1),
     Cls(WhiteSpace, 1, -1) >>
\* the gate with the anchor's [A-Z]{1,3} in place of the code list
StartsWithUpperToken(div_text) ==
  ReMatch(div_text, <<Bos, Cls(UpperAZ, 1, 3), Cls(WhiteSpace, 1, -1)>>).ok
StartsWithPosition(div_text) == ReMatch(div_text, position_pattern).ok

\* ------------------------------------------------------------------------
\* _parse_player_div
\* ------------------------------------------------------------------------
NameFirst == LowerAZ \cup UpperAZ \cup AccentedLower \cup AccentedUpper
NameMore == NameFirst \cup {"'", "."}
\* the anchor with (.*?) in place of (.+?)
mlb_format_pattern_empty_injury ==
  << Bos, Open(1), Cls(UpperAZ, 1, 3), Close(1), Cls(WhiteSpace, 1, -1),
     Open(2), Cls(UpperAZ, 1, 1), Cls(NameFirst, 1, -1),
       Rep(<<Cls(WhiteSpace, 1, -1), Cls(UpperAZ, 1, 1), Cls(NameMore, 1, -1)>>, 1, -1),
     Close(2),
     Lit(<<"I","n","j","u","r","y",":">>), Cls(WhiteSpace, 0, -1),
     Open(3), LazyNotCls(AnyChar, 0, -1), Close(3),
     Alt(<< <<Lit(<<"I","L"," ","d","a","t","e",":">>)>>, <<Lit(<<"E","x","p","e","c","t","e","d"," ","r","e","t","u","r","n",":">>)>>, <<Lit(<<"S","t","a","t","u","s",":">>)>>, <<Eos>> >>) >>
\* the anchor with (?:...)* in place of (?:...)+ in the name
mlb_format_pattern_single_token ==
  << Bos, Open(1), Cls(UpperAZ, 1, 3), Close(1), Cls(WhiteSpace, 1, -1),
     Open(2), Cls(UpperAZ, 1, 1), Cls(NameFirst, 1, -1),
       Rep(<<Cls(WhiteSpace, 1, -1), Cls(UpperAZ, 1, 1), Cls(NameMore, 1, -1)>>, 0, -1),
     Close(2),
     Lit(<<"I","n","j","u","r","y",":">>), Cls(WhiteSpace, 0, -1),
     Open(3), LazyNotCls(AnyChar, 1, -1), Close(3),
     Alt(<< <<Lit(<<"I","L"," ","d","a","t","e",":">>)>>, <<Lit(<<"E","x","p","e","c","t","e","d"," ","r","e","t","u","r","n",":">>)>>, <<Lit(<<"S","t","a","t","u","s",":">>)>>, <<Eos>> >>) >>
\* r'^([A-Z]{1,3})\s+([A-Z][a-zA-Z...]+(?:\s+[A-Z][a-zA-Z...\'\.]+)+)Injury:\s*(.+?)(?:IL date:|Expected return:|Status:|$)', re.DOTALL
mlb_format_pattern ==
  << Bos, Open(1), Cls(UpperAZ, 1, 3), Close(1), Cls(WhiteSpace, 1, -1),
     Open(2), Cls(UpperAZ, 1, 1), Cls(NameFirst, 1, -1),
       Rep(<<Cls(WhiteSpace, 1, -1), Cls(UpperAZ, 1, 1), Cls(NameMore, 1, -1)>>, 1, -1),
     Close(2),
     Lit(<<"I","n","j","u","r","y",":">>), Cls(WhiteSpace, 0, -1),
     Open(3), LazyNotCls(AnyChar, 1, -1), Close(3),
     Alt(<< <<Lit(<<"I","L"," ","d","a","t","e",":">>)>>, <<Lit(<<"E","x","p","e","c","t","e","d"," ","r","e","t","u","r","n",":">>)>>, <<Lit(<<"S","t","a","t","u","s",":">>)>>, <<Eos>> >>) >>
\* r'IL date:\s*([^E]+?)(?:Expected return:|Status:|$)', re.DOTALL
il_pattern ==
  << Lit(<<"I","L"," ","d","a","t","e",":">>), Cls(WhiteSpace, 0, -1),
     Open(1), LazyNotCls({"E"}, 1, -1), Close(1),
     Alt(<< <<Lit(<<"E","x","p","e","c","t","e","d"," ","r","e","t","u","r","n",":">>)>>, <<Lit(<<"S","t","a","t","u","s",":">>)>>, <<Eos>> >>) >>
\* r'Expected return:\s*([^S]+?)(?:Status:|$)', re.DOTALL
return_pattern ==
  << Lit(<<"E","x","p","e","c","t","e","d"," ","r","e","t","u","r","n",":">>), Cls(WhiteSpace, 0, -1),
     Open(1), LazyNotCls({"S"}, 1, -1), Close(1),
     Alt(<< <<Lit(<<"S","t","a","t","u","s",":">>)>>, <<Eos>> >>) >>
\* \w+\.?\s+\d+
MonthDay == << Cls(WordChars, 1, -1), Cls({"."}, 0, 1), Cls(WhiteSpace, 1, -1), Cls(Digits, 1, -1) >>
\* [r'\(updated\s+(\w+\.?\s+\d+)\)', r'\(Updated\s+(\w+\.?\s+\d+)\)']
updated_patterns ==
  << <<Lit(<<"(","u","p","d","a","t","e","d">>), Cls(WhiteSpace, 1, -1), Open(1)>> \o MonthDay \o <<Close(1), Lit(<<")">>)>>,
     <<Lit(<<"(","U","p","d","a","t","e","d">>), Cls(WhiteSpace, 1, -1), Open(1)>> \o MonthDay \o <<Close(1), Lit(<<")">>)>> >>
\* for pattern in updated_patterns: ... first pattern that matches, break
RECURSIVE FirstUpdated(_, _)
FirstUpdated(div_text, k) ==
  IF k > Len(updated_patterns) THEN None
  ELSE LET updated_match == ReSearch(div_text, updated_patterns[k])
       IN  IF updated_match.ok THEN Some(Group(div_text, updated_match, 1))
           ELSE FirstUpdated(div_text, k + 1)
\* r'Status:\s*(.+)', re.DOTALL
status_pattern ==
  << Lit(<<"S","t","a","t","u","s",":">>), Cls(WhiteSpace, 0, -1), Open(1), NotCls(AnyChar, 1, -1), Close(1) >>
\* r'\s*\(updated\s+\w+\.?\s+\d+\)\s*', flags=re.IGNORECASE
strip_updated_any_case ==
  <<Cls(WhiteSpace, 0, -1), LitI(<<"(","u","p","d","a","t","e","d">>), Cls(WhiteSpace, 1, -1)>> \o MonthDay
    \o <<Lit(<<")">>), Cls(WhiteSpace, 0, -1)>>
\* r'\s*\(Updated\s+\w+\.?\s+\d+\)\s*'
strip_updated_capital ==
  <<Cls(WhiteSpace, 0, -1), Lit(<<"(","U","p","d","a","t","e","d">>), Cls(WhiteSpace, 1, -1)>> \o MonthDay
    \o <<Lit(<<")">>), Cls(WhiteSpace, 0, -1)>>
\* r'\s*More\s*>>\s*'
strip_more ==
  << Cls(WhiteSpace, 0, -1), Lit(<<"M","o","r","e">>), Cls(WhiteSpace, 0, -1), Lit(<<">",">">>), Cls(WhiteSpace, 0, -1) >>

\* the status clean-up of _parse_player_div: strip, three re.sub, strip
CleanStatus(raw) ==
  Strip(ReSub(ReSub(ReSub(Strip(raw), strip_updated_any_case, <<>>),
                    strip_updated_capital, <<>>), strip_more, <<>>))

IlDate(div_text) ==
  LET il_match == ReSearch(div_text, il_pattern)
  IN  IF il_match.ok THEN Some(Strip(Group(div_text, il_match, 1))) ELSE None
ExpectedReturn(div_text) ==
  LET return_match == ReSearch(div_text, return_pattern)
  IN  IF return_match.ok THEN Some(Strip(Group(div_text, return_match, 1))) ELSE None
\* the status without the test "if status_text:"
StatusKeepsEmpty(div_text) ==
  LET status_match == ReSearch(div_text, status_pattern)
  IN  IF ~status_match.ok THEN None
      ELSE Some(CleanStatus(Group(div_text, status_match, 1)))
Status(div_text) ==
  LET status_match == ReSearch(div_text, status_pattern)
  IN  IF ~status_match.ok THEN None
      ELSE LET status_text == CleanStatus(Group(div_text, status_match, 1))
           IN  IF Len(status_text) > 0 THEN Some(status_text) ELSE None

\* the whole of _parse_player_div: None, or Some(player_info)
ParsePlayerDiv(div) ==
  LET div_text == Strip(div.text)
      mlb_format_match == ReSearch(div_text, mlb_format_pattern)
  IN  IF ~mlb_format_match.ok THEN None
      ELSE Some([position |-> Some(Group(div_text, mlb_format_match, 1)),
                 name |-> Some(Strip(Group(div_text, mlb_format_match, 2))),
                 injury |-> Some(Strip(Group(div_text, mlb_format_match, 3))),
                 il_date |-> IlDate(div_text),
                 expected_return |-> ExpectedReturn(div_text),
                 status |-> Status(div_text),
                 last_updated |-> FirstUpdated(div_text, 1)])

\* ------------------------------------------------------------------------
\* _parse_structured_injury_paragraph (no caller in the repository)
\* ------------------------------------------------------------------------
ToUpper(c) == IF \E u \in DOMAIN LowerMap : LowerMap[u] = c
              THEN CHOOSE u \in DOMAIN LowerMap : LowerMap[u] = c ELSE c
IsCased(c) == c \in DOMAIN LowerMap \/ \E u \in DOMAIN LowerMap : LowerMap[u] = c
\* str.title()
Title(s) == [k \in 1..Len(s) |-> IF k > 1 /\ IsCased(s[k - 1]) THEN ToLower(s[k]) ELSE ToUpper(s[k])]
\* a value that Python's "if value" and "a or b" take as true
Truthy(o) == IsSome(o) /\ Len(Val(o)) > 0

\* w1|w2|... of literals
AltOf(words) == Alt([k \in 1..Len(words) |-> <<Lit(words[k])>>])
AltOfI(words) == Alt([k \in 1..Len(words) |-> <<LitI(words[k])>>])

\* the first pattern of a list that re.search finds in text (k = 0: none)
RECURSIVE FirstPattern(_, _, _)
FirstPattern(text, patterns, k) ==
  IF k > Len(patterns) THEN [k |-> 0, m |-> NoMatch]
  ELSE LET m == ReSearch(text, patterns[k])
       IN  IF m.ok THEN [k |-> k, m |-> m] ELSE FirstPattern(text, patterns, k + 1)

AsciiNameMore == LowerAZ \cup {"'"}
\* [A-Z][a-z]+(?:\s+[A-Z][a-z\']+)+
ascii_name ==
  << Cls(UpperAZ, 1, 1), Cls(LowerAZ, 1, -1),
     Rep(<<Cls(WhiteSpace, 1, -1), Cls(UpperAZ, 1, 1), Cls(AsciiNameMore, 1, -1)>>, 1, -1) >>
\* r'^([A-Z]{1,3})\s+([A-Z][a-z]+(?:\s+[A-Z][a-z\']+)+)Injury:\s*(.+?)(?:IL date:|Expected return:|Status:|$)', re.DOTALL
ascii_format_pattern ==
  << Bos, Open(1), Cls(UpperAZ, 1, 3), Close(1), Cls(WhiteSpace, 1, -1), Open(2) >> \o ascii_name
    \o << Close(2), Lit(<<"I","n","j","u","r","y",":">>), Cls(WhiteSpace, 0, -1),
          Open(3), LazyNotCls(AnyChar, 1, -1), Close(3),
          Alt(<< <<Lit(<<"I","L"," ","d","a","t","e",":">>)>>, <<Lit(<<"E","x","p","e","c","t","e","d"," ","r","e","t","u","r","n",":">>)>>, <<Lit(<<"S","t","a","t","u","s",":">>)>>, <<Eos>> >>) >>
\* r'(\w+\s+\d+)'
date_in_status_pattern ==
  << Open(1), Cls(WordChars, 1, -1), Cls(WhiteSpace, 1, -1), Cls(Digits, 1, -1), Close(1) >>
\* r'^([A-Z][a-z]+(?:\s+[A-Z][a-z\']+)+)'
bold_name_pattern == <<Bos, Open(1)>> \o ascii_name \o <<Close(1)>>

skip_words ==
  << <<"p","l","a","y","e","r"," ","n","a","m","e",":">>, <<"i","n","j","u","r","y",":">>, <<"i","l"," ","d","a","t","e",":">>, <<"e","x","p","e","c","t","e","d"," ","r","e","t","u","r","n",":">>, <<"s","t","a","t","u","s",":">>, <<"u","p","d","a","t","e","d",":">> >>
common_phrases == << <<"l","i","t","t","l","e"," ","l","e","a","g","u","e">>, <<"n","e","w"," ","y","o","r","k">>, <<"m","a","j","o","r"," ","l","e","a","g","u","e">>, <<"w","o","r","l","d"," ","s","e","r","i","e","s">> >>
ContainsAny(text, words) == \E k \in 1..Len(words) : Contains(text, words[k])

\* "for bold in bold_elements": the first bold text that gives a name
RECURSIVE NameFromBold(_, _)
NameFromBold(bold_elements, k) ==
  IF k > Len(bold_elements) THEN None
  ELSE LET bold_text == Strip(bold_elements[k])
           name_match == ReSearch(bold_text, bold_name_pattern)
       IN  IF ContainsAny(Lower(bold_text), skip_words) THEN NameFromBold(bold_elements, k + 1)
           ELSE IF name_match.ok /\ ~ContainsAny(Lower(Group(bold_text, name_match, 1)), common_phrases)
           THEN Some(Group(bold_text, name_match, 1))
           ELSE NameFromBold(bold_elements, k + 1)

UpperOrDigit == UpperAZ \cup Digits
fallback_codes ==
  << <<"C">>, <<"1","B">>, <<"2","B">>, <<"3","B">>, <<"S","S">>, <<"L","F">>, <<"C","F">>, <<"R","F">>, <<"O","F">>, <<"I","F">>, <<"P">>, <<"R","H","P">>, <<"L","H","P">>, <<"D","H">> >>
\* r'Player position:\s*([A-Z0-9]+)', r'player position:\s*([A-Z0-9]+)', r'\(([A-Z0-9]+)\)',
\* r'\b(C|1B|2B|3B|SS|LF|CF|RF|OF|IF|P|RHP|LHP|DH)\b'
position_patterns ==
  << << Lit(<<"P","l","a","y","e","r"," ","p","o","s","i","t","i","o","n",":">>), Cls(WhiteSpace, 0, -1), Open(1), Cls(UpperOrDigit, 1, -1), Close(1) >>,
     << Lit(<<"p","l","a","y","e","r"," ","p","o","s","i","t","i","o","n",":">>), Cls(WhiteSpace, 0, -1), Open(1), Cls(UpperOrDigit, 1, -1), Close(1) >>,
     << Lit(<<"(">>), Open(1), Cls(UpperOrDigit, 1, -1), Close(1), Lit(<<")">>) >>,
     << Wb, Open(1), AltOf(fallback_codes), Close(1), Wb >> >>
FallbackPosition(text) ==
  LET f == FirstPattern(text, position_patterns, 1)
  IN  IF f.k = 0 THEN None ELSE Some(Group(text, f.m, 1))

body_parts ==
  << <<"h","a","n","d">>, <<"t","h","u","m","b">>, <<"e","l","b","o","w">>, <<"s","h","o","u","l","d","e","r">>, <<"k","n","e","e">>, <<"a","n","k","l","e">>, <<"b","a","c","k">>, <<"h","a","m","s","t","r","i","n","g">>, <<"q","u","a","d">>, <<"c","a","l","f">>,
     <<"w","r","i","s","t">>, <<"f","i","n","g","e","r">> >>
NewlineOrBar == {"\n", "|"}
NewlineBarComma == {"\n", "|", ","}
\* the five injury_patterns, searched with re.IGNORECASE
injury_patterns ==
  << << LitI(<<"I","n","j","u","r","y",":">>), Cls(WhiteSpace, 0, -1), Open(1), NotCls(NewlineOrBar, 1, -1), Close(1) >>,
     << LitI(<<"i","n","j","u","r","y",":">>), Cls(WhiteSpace, 0, -1), Open(1), NotCls(NewlineOrBar, 1, -1), Close(1) >>,
     << Open(1), AltOfI(<<<<"r","i","g","h","t">>, <<"l","e","f","t">>>>), Cls(WhiteSpace, 1, -1), AltOfI(body_parts), Close(1) >>,
     << Open(1), AltOfI(<<<<"s","t","r","a","i","n","e","d">>, <<"s","p","r","a","i","n","e","d">>, <<"t","o","r","n">>, <<"f","r","a","c","t","u","r","e","d">>>>), Cls(WhiteSpace, 1, -1),
        NotCls(NewlineBarComma, 1, -1), Close(1) >>,
     << Open(1), AltOfI(body_parts), Close(1),
        Rep(<<Cls(WhiteSpace, 1, -1), AltOfI(<<<<"i","n","j","u","r","y">>, <<"s","t","r","a","i","n">>, <<"s","p","r","a","i","n">>>>)>>, 0, 1) >> >>
\* 'injury:' in pattern.lower() holds for the first two patterns
FallbackInjury(text) ==
  LET f == FirstPattern(text, injury_patterns, 1)
  IN  IF f.k = 0 THEN None
      ELSE IF f.k <= 2 THEN Some(Strip(Group(text, f.m, 1)))
      ELSE Some(Title(ReSub(Strip(Group(text, f.m, 1)), <<Cls(WhiteSpace, 1, -1)>>, <<" ">>)))

Bar == {"|"}
\* the four il_date_patterns, searched with re.IGNORECASE
il_date_patterns ==
  << << LitI(<<"I","L"," ","d","a","t","e",":">>), Cls(WhiteSpace, 0, -1), Open(1), NotCls(Bar, 1, -1), Close(1) >>,
     << LitI(<<"i","l"," ","d","a","t","e",":">>), Cls(WhiteSpace, 0, -1), Open(1), NotCls(Bar, 1, -1), Close(1) >>,
     << LitI(<<"p","l","a","c","e","d"," ","o","n">>), LazyNotCls(NotNewline, 0, -1), LitI(<<"I","L">>), LazyNotCls(NotNewline, 0, -1),
        Open(1), Cls(WordChars, 1, -1), Cls(WhiteSpace, 1, -1), Cls(Digits, 1, -1), Close(1) >>,
     << Open(1), Cls(WordChars, 1, -1), Cls(WhiteSpace, 1, -1), Cls(Digits, 1, -1), Close(1),
        LazyNotCls(NotNewline, 0, -1), LitI(<<"I","L">>) >> >>
FallbackIlDate(text) ==
  LET f == FirstPattern(text, il_date_patterns, 1)
  IN  IF f.k = 0 THEN None ELSE Some(Strip(Group(text, f.m, 1)))

OptionalS == {"s", "S"}
\* the five return_patterns, searched with re.IGNORECASE
return_patterns ==
  << << LitI(<<"E","x","p","e","c","t","e","d"," ","r","e","t","u","r","n",":">>), Cls(WhiteSpace, 0, -1), Open(1), NotCls(Bar, 1, -1), Close(1) >>,
     << LitI(<<"e","x","p","e","c","t","e","d"," ","r","e","t","u","r","n",":">>), Cls(WhiteSpace, 0, -1), Open(1), NotCls(Bar, 1, -1), Close(1) >>,
     << Open(1), AltOfI(<<<<"d","a","y","-","t","o","-","d","a","y">>, <<"d","a","y"," ","t","o"," ","d","a","y">>>>), Close(1) >>,
     << LitI(<<"e","x","p","e","c","t","e","d">>), LazyNotCls(NotNewline, 0, -1), Open(1), Cls(Digits, 1, -1),
        Cls(WhiteSpace, 0, -1),
        Alt(<< <<LitI(<<"d","a","y">>), Cls(OptionalS, 0, 1)>>, <<LitI(<<"w","e","e","k">>), Cls(OptionalS, 0, 1)>>,
               <<LitI(<<"m","o","n","t","h">>), Cls(OptionalS, 0, 1)>> >>), Close(1) >>,
     << LitI(<<"r","e","t","u","r","n">>), LazyNotCls(NotNewline, 0, -1), Open(1),
        Alt(<< <<Cls(Digits, 4, 4)>>, <<LitI(<<"s","e","a","s","o","n">>)>> >>), Close(1) >> >>
\* 'expected return:' in pattern.lower() holds for the first two patterns
FallbackReturn(text) ==
  LET f == FirstPattern(text, return_patterns, 1)
  IN  IF f.k = 0 THEN None
      ELSE IF f.k <= 2 THEN Some(Strip(Group(text, f.m, 1)))
      ELSE Some(Strip(Group0(text, f.m)))

Comma == {","}
\* the three date_patterns, searched with re.IGNORECASE
date_patterns ==
  << << LitI(<<"U","p","d","a","t","e","d",":">>), Cls(WhiteSpace, 0, -1), Open(1), NotCls(Bar, 1, -1), Close(1) >>,
     << LitI(<<"u","p","d","a","t","e","d",":">>), Cls(WhiteSpace, 0, -1), Open(1), NotCls(Bar, 1, -1), Close(1) >>,
     << Open(1), Cls(WordChars, 1, -1), Cls(WhiteSpace, 1, -1), Cls(Digits, 1, -1), Cls(Comma, 0, 1),
        Cls(WhiteSpace, 0, -1), Cls(Digits, 0, -1), Close(1) >> >>
FallbackUpdated(text) ==
  LET f == FirstPattern(text, date_patterns, 1)
  IN  IF f.k = 0 THEN None ELSE Some(Strip(Group(text, f.m, 1)))

\* the first branch: the "POSITION PlayerNameInjury: ..." format with plain letters
AsciiFormatInfo(paragraph_text, m) ==
  LET status_match == ReSearch(paragraph_text, status_pattern)
      status_text == Strip(Group(paragraph_text, status_match, 1))
      date_in_status == ReSearch(status_text, date_in_status_pattern)
  IN  [position |-> Some(Group(paragraph_text, m, 1)),
       name |-> Some(Strip(Group(paragraph_text, m, 2))),
       injury |-> Some(Strip(Group(paragraph_text, m, 3))),
       il_date |-> IlDate(paragraph_text),
       expected_return |-> ExpectedReturn(paragraph_text),
       last_updated |-> IF status_match.ok /\ date_in_status.ok
                        THEN Some(Group(status_text, date_in_status, 1)) ELSE None]

\* the whole of _parse_structured_injury_paragraph: None, or Some(player_info)
ParseStructuredInjuryParagraph(paragraph, bold_elements) ==
  LET paragraph_text == Strip(paragraph.text)
      mlb_format_match == ReSearch(paragraph_text, ascii_format_pattern)
      name == NameFromBold(bold_elements, 1)
      info == [position |-> FallbackPosition(paragraph_text), name |-> name,
               injury |-> FallbackInjury(paragraph_text),
               il_date |-> FallbackIlDate(paragraph_text),
               expected_return |-> FallbackReturn(paragraph_text),
               last_updated |-> FallbackUpdated(paragraph_text)]
  IN  IF mlb_format_match.ok THEN Some(AsciiFormatInfo(paragraph_text, mlb_format_match))
      ELSE IF ~Truthy(name) THEN None
      ELSE IF Truthy(info.injury) \/ Truthy(info.il_date) \/ Truthy(info.expected_return)
      THEN Some(info)
      ELSE None

\* ------------------------------------------------------------------------
\* Documents.  A document is the sequence of its elements in document order;
\* an element is [tag, class, text, parent, bold]: its tag name, its class
\* attribute (empty when it has none), the text it holds before its first
\* child, the index of its parent (0 at the top) and the texts of its bold
\* elements.
\* ------------------------------------------------------------------------
Element(tag, class, text, parent, bold) ==
  [tag |-> tag, class |-> class, text |-> text, parent |-> parent, bold |-> bold]

\* element k lies inside element a
RECURSIVE IsUnder(_, _, _)
IsUnder(d, k, a) ==
  /\ d[k].parent # 0
  /\ (d[k].parent = a \/ IsUnder(d, d[k].parent, a))
\* the elements inside element a, in document order (a = 0: the whole document)
Descendants(d, a) == {k \in 1..Len(d) : a = 0 \/ IsUnder(d, k, a)}
RECURSIVE TextFrom(_, _, _)
TextFrom(d, a, k) ==
  IF k > Len(d) THEN <<>>
  ELSE (IF k = a \/ IsUnder(d, k, a) THEN d[k].text ELSE <<>>) \o TextFrom(d, a, k + 1)
\* element.get_text()
GetText(d, a) == TextFrom(d, a, a)
\* the least element of a set of indices, 0 when it is empty
First(ks) == IF ks = {} THEN 0 ELSE CHOOSE k \in ks : \A q \in ks : k <= q

\* ------------------------------------------------------------------------
\* scrape_mets_injuries: finding the article content
\* ------------------------------------------------------------------------
\* a selector is a tag name with, at most, a class or a part of the class attribute
Selector(name, tag, class, part) == [name |-> name, tag |-> tag, class |-> class, part |-> part]
article_selectors ==
  << Selector("div.article-content", "div", <<"a","r","t","i","c","l","e","-","c","o","n","t","e","n","t">>, <<>>),
     Selector("article", "article", <<>>, <<>>),
     Selector("div.article-wrap", "div", <<"a","r","t","i","c","l","e","-","w","r","a","p">>, <<>>),
     Selector("div.article-body", "div", <<"a","r","t","i","c","l","e","-","b","o","d","y">>, <<>>),
     Selector("div.content", "div", <<"c","o","n","t","e","n","t">>, <<>>),
     Selector("main", "main", <<>>, <<>>),
     Selector("div[class*=\"article\"]", "div", <<>>, <<"a","r","t","i","c","l","e">>),
     Selector("div[class*=\"content\"]", "div", <<>>, <<"c","o","n","t","e","n","t">>) >>
\* the class attribute holds the class name as one of its blank-separated words
HasClass(class, name) ==
  \E p \in 1..(Len(class) - Len(name) + 1) :
    /\ LitAt(class, p, name, FALSE)
    /\ (p = 1 \/ class[p - 1] \in WhiteSpace)
    /\ (p + Len(name) > Len(class) \/ class[p + Len(name)] \in WhiteSpace)
Matches(element, selector) ==
  /\ element.tag = selector.tag
  /\ (Len(selector.class) > 0 => HasClass(element.class, selector.class))
  /\ (Len(selector.part) > 0 => Contains(element.class, selector.part))
\* soup.select_one(selector): the first matching element, 0 for None
SelectOne(d, selector) == First({k \in 1..Len(d) : Matches(d[k], selector)})
\* the first element of the document that matches any of the selectors
FirstSelectorInDocumentOrder(d) ==
  LET a == First({k \in 1..Len(d) : \E s \in 1..Len(article_selectors) : Matches(d[k], article_selectors[s])})
  IN  IF a = 0 THEN 0 ELSE First({s \in 1..Len(article_selectors) : Matches(d[a], article_selectors[s])})
\* "for selector in article_selectors: ... if article_content: break": the
\* index of the first selector that selects an element, 0 when none does
FirstSelector(d) == First({s \in 1..Len(article_selectors) : SelectOne(d, article_selectors[s]) # 0})

MinTextLen == 500
keywords == <<<<"i","n","j","u","r","y">>, <<"i","n","j","u","r","e","d">>, <<"i","l">>>>
\* the test of the fallback with >= in place of >
IsLongInjuryTextOrEqual(text) ==
  /\ Len(text) >= MinTextLen
  /\ \E k \in 1..Len(keywords) : Contains(Lower(text), keywords[k])
\* len(text) > 500 and any(keyword in text.lower() for keyword in [...])
IsLongInjuryText(text) ==
  /\ Len(text) > MinTextLen
  /\ \E k \in 1..Len(keywords) : Contains(Lower(text), keywords[k])
\* "for div in all_divs: ... break": the first div with such a text, 0 for None
FallbackDiv(d) ==
  First({k \in 1..Len(d) : d[k].tag = "div" /\ IsLongInjuryText(Strip(GetText(d, k)))})

\* the element the locator ends with (0 for None) and how it was found
LocateContent(d) ==
  LET s == FirstSelector(d)
  IN  IF s # 0 THEN [at |-> SelectOne(d, article_selectors[s]), by |-> article_selectors[s].name]
      ELSE IF FallbackDiv(d) # 0 THEN [at |-> FallbackDiv(d), by |-> "fallback method"]
      ELSE [at |-> 0, by |-> ""]

\* the search of the whole content, whether it holds a section or not
WholeContent(d, content) == content
\* content.find('section'), and content itself when there is none
FindSection(d, content) ==
  LET s == First({k \in Descendants(d, content) : d[k].tag = "section"})
  IN  IF s = 0 THEN content ELSE s

\* section.find_all('div', class_=...): the divs, each with its get_text()
\* and its place in the document
RECURSIVE DivsFrom(_, _, _)
DivsFrom(d, section, k) ==
  IF k > Len(d) THEN <<>>
  ELSE (IF IsUnder(d, k, section) /\ d[k].tag = "div" /\ IsMarkdownDiv(d[k])
        THEN <<[class |-> d[k].class, text |-> GetText(d, k), bold |-> d[k].bold, at |-> k]>>
        ELSE <<>>) \o DivsFrom(d, section, k + 1)
FindMarkdownDivs(d, section) == DivsFrom(d, section, 1)

\* ------------------------------------------------------------------------
\* The documents the scraper is run on.  A div is given as [class, text, bold].
\* ------------------------------------------------------------------------
MaxDivs == 2
MaxCalls == 2

EntryClass == <<"s","t","o","r","y","-","p","a","r","t"," ","m","a","r","k","d","o","w","n">>
Div(class, text, bold) == [class |-> class, text |-> text, bold |-> bold]

Field(label, value) == IF IsSome(value) THEN <<" ">> \o label \o <<" ">> \o Val(value) ELSE <<>>
\* "<code> <name>Injury: <injury>[ IL date: <date>][ Expected return: <return>][ Status: <status>]"
EntryText(code, name, injury, il, ret, st) ==
  code \o <<" ">> \o name \o <<"I","n","j","u","r","y",":">>
    \o (IF Len(injury) > 0 THEN <<" ">> \o injury ELSE <<>>)
    \o Field(<<"I","L"," ","d","a","t","e",":">>, il) \o Field(<<"E","x","p","e","c","t","e","d"," ","r","e","t","u","r","n",":">>, ret) \o Field(<<"S","t","a","t","u","s",":">>, st)

CodeTokens == {position_codes[k] : k \in 1..Len(position_codes)} \cup {<<"A","B">>, <<"P","H">>}
IlTexts == {None, Some(<<"M","a","y"," ","1">>), Some(<<"E","a","r","l","y"," ","M","a","y">>)}
ReturnTexts == {None, Some(<<"J","u","n","e"," ","1">>), Some(<<"L","a","t","e"," ","S","e","p","t","e","m","b","e","r">>)}
StatusTexts ==
  {None, Some(<<"d","a","y","-","t","o","-","d","a","y"," ","(","u","p","d","a","t","e","d"," ","M","a","y"," ","5",")"," ","M","o","r","e"," ",">",">">>), Some(<<"o","u","t"," ","(","U","P","D","A","T","E","D"," ","M","a","y"," ","5",")">>),
   Some(<<"o","u","t"," ","(","U","p","d","a","t","e","d"," ","M","a","y"," ","4",")"," ","t","h","e","n"," ","(","u","p","d","a","t","e","d"," ","M","a","y"," ","5",")">>),
   Some(<<"o","u","t"," ","(","u","p","d","a","(","u","p","d","a","t","e","d"," ","M","a","y"," ","5",")","t","e","d"," ","M","a","y"," ","5",")">>), Some(<<"o","u","t"," ","M","o","r","e"," ",">","M","o","r","e"," ",">",">",">">>),
   Some(<<"(","u","p","d","a","t","e","d"," ","A","u","g","."," ","1","2",")"," ","M","o","r","e"," ",">",">">>), Some(<<"S","i","g","n"," ","U","p"," ","T","o"," ","R","e","c","e","i","v","e"," ","n","e","w","s">>)}

\* one entry per position token, and the entries of one player in every shape
CodeDivs ==
  {Div(EntryClass, EntryText(c, <<"P","e","t","e"," ","A","l","o","n","s","o">>, <<"s","o","r","e"," ","k","n","e","e">>, None, None, None), <<<<"P","e","t","e"," ","A","l","o","n","s","o">>>>) :
     c \in CodeTokens}
ShapeDivs ==
  {Div(EntryClass, EntryText(<<"C">>, <<"P","e","t","e"," ","A","l","o","n","s","o">>, <<"s","o","r","e"," ","k","n","e","e">>, il, ret, st), <<<<"P","e","t","e"," ","A","l","o","n","s","o">>>>) :
     il \in IlTexts, ret \in ReturnTexts, st \in StatusTexts}
\* entries where a marker, or nothing, follows "Injury:" at once
EmptyInjuryDivs ==
  {Div(EntryClass, EntryText(<<"C">>, <<"P","e","t","e"," ","A","l","o","n","s","o">>, <<>>, il, None, st), <<<<"P","e","t","e"," ","A","l","o","n","s","o">>>>) :
     il \in {None, Some(<<"M","a","y"," ","1">>)}, st \in {None, Some(<<"o","u","t">>)}}
OtherDivs ==
  { Div(EntryClass, <<>>, <<>>),
    Div(EntryClass, <<" ","\n"," ">>, <<>>),
    Div(EntryClass, <<"\n"," ","L","H","P"," ","F","r","a","m","b","e","r"," ","V","a","l","d","e","z","I","n","j","u","r","y",":"," ","f","o","r","e","a","r","m"," ","t","i","g","h","t","n","e","s","s"," ","S","t","a","t","u","s",":"," ","d","a","y","-","t","o","-","d","a","y"," ","\n">>, <<>>),
    Div(EntryClass, <<"C"," ","P","e","t","e"," ","A","l","o","n","s","o","I","n","j","u","r","y",":"," ","s","o","r","e"," ","k","n","e","e"," ","I","L"," ","d","a","t","e",":"," ","E","x","p","e","c","t","e","d"," ","r","e","t","u","r","n",":"," ","J","u","n","e"," ","1">>, <<<<"P","e","t","e"," ","A","l","o","n","s","o">>>>),
    Div(EntryClass, <<"C","\t","P","e","t","e"," "," ","A","l","o","n","s","o","I","n","j","u","r","y",":","\n","s","o","r","e"," ","k","n","e","e","\n","S","t","a","t","u","s",":","\n","o","u","t","\n","(","u","p","d","a","t","e","d"," ","M","a","y"," ","5",")">>, <<<<"P","e","t","e"," ","A","l","o","n","s","o">>>>),
    Div(EntryClass, <<"C"," ","S","i","g","n"," ","u","p"," ","t","o"," ","r","e","c","e","i","v","e"," ","t","h","e"," ","l","a","t","e","s","t"," ","f","r","o","m"," ","M","L","B",".","c","o","m">>, <<>>),
    Div(EntryClass, <<"L","a","t","e","s","t"," ","i","n","j","u","r","i","e","s"," ","a","n","d"," ","r","o","s","t","e","r"," ","m","o","v","e","s">>, <<>>),
    Div(EntryClass, <<"P","e","t","e"," ","A","l","o","n","s","o"," ","i","s"," ","h","e","a","l","t","h","y">>, <<<<"P","e","t","e"," ","A","l","o","n","s","o">>>>),
    Div(EntryClass, <<"C"," ","s","t","r","a","i","n","e","d"," ","r","i","g","h","t"," ","h","a","m","s","t","r","i","n","g",","," ","d","a","y","-","t","o","-","d","a","y">>, <<>>),
    Div(EntryClass, <<"C"," ","s","t","r","a","i","n","e","d"," ","r","i","g","h","t"," ","h","a","m","s","t","r","i","n","g",","," ","d","a","y","-","t","o","-","d","a","y">>, <<<<"P","e","t","e"," ","A","l","o","n","s","o">>>>),
    Div(EntryClass, <<"S","S"," ","J","o","s","é"," ","R","a","m","í","r","e","z","I","n","j","u","r","y",":"," ","s","o","r","e"," ","k","n","e","e">>, <<<<"J","o","s","é"," ","R","a","m","í","r","e","z">>>>),
    Div(EntryClass, <<"R","F"," ","A","l","o","n","s","o","I","n","j","u","r","y",":"," ","s","o","r","e"," ","k","n","e","e">>, <<<<"A","l","o","n","s","o">>>>),
    Div(EntryClass, <<"S","S"," ","Á","n","g","e","l"," ","M","a","r","t","í","n","e","z","I","n","j","u","r","y",":"," ","s","o","r","e"," ","k","n","e","e">>, <<<<"Á","n","g","e","l"," ","M","a","r","t","í","n","e","z">>>>),
    Div(EntryClass, <<"C"," ","P","e","t","e"," ","O","'","N","e","i","l","l"," ","J","r",".","I","n","j","u","r","y",":"," ","s","o","r","e"," ","k","n","e","e"," ","S","t","a","t","u","s",":"," ","(","u","p","d","a","t","e","d"," ","M","a","y"," ","5",")">>, <<<<"P","e","t","e"," ","O","'","N","e","i","l","l"," ","J","r",".">>>>),
    Div(EntryClass, <<"C"," ","P","e","t","e"," ","A","l","o","n","s","o","I","n","j","u","r","y",":"," ","s","o","r","e"," ","k","n","e","e"," ","S","t","a","t","u","s",":"," ","\n">>, <<<<"P","e","t","e"," ","A","l","o","n","s","o">>>>),
    Div(<<"m","a","r","k","d","o","w","n">>, <<"C"," ","P","e","t","e"," ","A","l","o","n","s","o","I","n","j","u","r","y",":"," ","s","o","r","e"," ","k","n","e","e">>, <<<<"P","e","t","e"," ","A","l","o","n","s","o">>>>),
    Div(<<"s","t","o","r","y","-","p","a","r","t">>, <<"C"," ","P","e","t","e"," ","A","l","o","n","s","o","I","n","j","u","r","y",":"," ","s","o","r","e"," ","k","n","e","e">>, <<<<"P","e","t","e"," ","A","l","o","n","s","o">>>>) }
AllDivs == CodeDivs \cup ShapeDivs \cup EmptyInjuryDivs \cup OtherDivs

EntryPete == Div(EntryClass, <<"C"," ","P","e","t","e"," ","A","l","o","n","s","o","I","n","j","u","r","y",":"," ","s","o","r","e"," ","k","n","e","e"," ","S","t","a","t","u","s",":"," ","o","u","t"," ","(","u","p","d","a","t","e","d"," ","M","a","y"," ","5",")">>, <<<<"P","e","t","e"," ","A","l","o","n","s","o">>>>)
EntryKodai == Div(EntryClass, <<"R","H","P"," ","K","o","d","a","i"," ","S","e","n","g","a","I","n","j","u","r","y",":"," ","c","a","l","f"," ","s","t","r","a","i","n"," ","I","L"," ","d","a","t","e",":"," ","M","a","y"," ","1">>, <<<<"K","o","d","a","i"," ","S","e","n","g","a">>>>)
EntryFirstBase == Div(EntryClass, <<"1","B"," ","P","e","t","e"," ","A","l","o","n","s","o","I","n","j","u","r","y",":"," ","s","o","r","e"," ","k","n","e","e">>, <<<<"P","e","t","e"," ","A","l","o","n","s","o">>>>)
\* the divs that documents of several divs are made of
CoreDivs ==
  { EntryPete, EntryKodai, EntryFirstBase,
    Div(EntryClass, <<"L","a","t","e","s","t"," ","i","n","j","u","r","i","e","s"," ","a","n","d"," ","r","o","s","t","e","r"," ","m","o","v","e","s">>, <<>>),
    Div(<<"m","a","r","k","d","o","w","n">>, <<"C"," ","P","e","t","e"," ","A","l","o","n","s","o","I","n","j","u","r","y",":"," ","s","o","r","e"," ","k","n","e","e">>, <<>>) }

RECURSIVE SeqsUpTo(_, _)
SeqsUpTo(S, n) ==
  IF n = 0 THEN {<<>>}
  ELSE LET shorter == SeqsUpTo(S, n - 1)
       IN  shorter \cup {Append(s, x) : s \in shorter, x \in S}\* building documents: elements put inside an element, and beside others
Under(elements, shift, top) ==
  [k \in 1..Len(elements) |->
     [elements[k] EXCEPT !.parent = IF @ = 0 THEN top ELSE @ + shift]]
Wrap(element, inside) == <<element>> \o Under(inside, 1, 1)
Beside(before, after) == before \o Under(after, Len(before), 0)
Leaves(divs) ==
  [k \in 1..Len(divs) |-> Element("div", divs[k].class, divs[k].text, 0, divs[k].bold)]
Plain(tag, class) == Element(tag, class, <<>>, 0, <<>>)
DivLists == {<<d>> : d \in AllDivs} \cup SeqsUpTo(CoreDivs, MaxDivs)
\* the divs of each list as the children of one article element
ArticleDocs == {Wrap(Plain("article", <<>>), Leaves(divs)) : divs \in DivLists}


\* a div without class that holds an entry and a paragraph of filling, its
\* trimmed text being of the given length
Filling(n) == [k \in 1..n |-> "x"]
LongDiv(entry, length) ==
  Wrap(Plain("div", <<>>),
       Leaves(<<entry>>) \o <<Element("p", <<>>, Filling(length - Len(entry.text)), 0, <<>>)>>)
TextDiv(text) == <<Element("div", <<>>, text, 0, <<>>)>>

\* one element for each selector, that no earlier selector selects
Containers ==
  << Plain("div", <<"a","r","t","i","c","l","e","-","c","o","n","t","e","n","t">>), Plain("article", <<>>), Plain("div", <<"a","r","t","i","c","l","e","-","w","r","a","p">>),
     Plain("div", <<"w","i","d","e"," ","a","r","t","i","c","l","e","-","b","o","d","y">>), Plain("div", <<"c","o","n","t","e","n","t">>), Plain("main", <<>>),
     Plain("div", <<"n","e","w","s","-","a","r","t","i","c","l","e","-","b","o","x">>), Plain("div", <<"m","a","i","n","-","c","o","n","t","e","n","t","s">>) >>
\* two of them with an entry each: one after the other, and one in the other
SelectorDocs ==
  {Beside(Wrap(Containers[a], Leaves(<<EntryKodai>>)), Wrap(Containers[b], Leaves(<<EntryPete>>))) :
     a \in 1..Len(Containers), b \in 1..Len(Containers)}
  \cup
  {Wrap(Containers[a], Beside(Leaves(<<EntryKodai>>), Wrap(Containers[b], Leaves(<<EntryPete>>)))) :
     a \in {5, 6}, b \in 1..Len(Containers)}
  \cup
  { Beside(Wrap(Containers[8], LongDiv(EntryPete, MinTextLen + 1)),
           Wrap(Containers[2], Leaves(<<Div(EntryClass, <<"L","a","t","e","s","t"," ","i","n","j","u","r","i","e","s"," ","a","n","d"," ","r","o","s","t","e","r"," ","m","o","v","e","s">>, <<>>)>>))) }

\* documents where no selector selects anything
FallbackDocs ==
  { LongDiv(EntryPete, MinTextLen + 1),
    LongDiv(EntryPete, MinTextLen),
    Beside(LongDiv(EntryKodai, MinTextLen), LongDiv(EntryPete, MinTextLen + 1)),
    Beside(LongDiv(EntryKodai, MinTextLen + 1), LongDiv(EntryPete, MinTextLen + 1)),
    Beside(TextDiv(Filling(MinTextLen + 1)), LongDiv(EntryPete, MinTextLen + 1)),
    Beside(TextDiv(<<"P","l","a","c","e","d"," ","o","n"," ","t","h","e"," ","I","L">> \o Filling(MinTextLen)), LongDiv(EntryPete, MinTextLen + 1)),
    Beside(TextDiv(<<" ","\n">> \o Filling(MinTextLen - 6) \o <<"i","n","j","u","r","y"," ","\n">>), LongDiv(EntryPete, MinTextLen + 1)),
    Wrap(Plain("div", <<"w","r","a","p","p","e","r">>), LongDiv(EntryPete, MinTextLen + 1)),
    Wrap(Plain("p", <<>>), LongDiv(EntryPete, MinTextLen + 1)),
    Leaves(<<EntryPete, EntryKodai>>),
    <<>> }

\* an article whose entries lie in a section, and beside it
SectionDocs ==
  { Wrap(Plain("article", <<>>),
         Beside(Leaves(<<EntryKodai>>), Wrap(Plain("section", <<>>), Leaves(<<EntryPete>>)))),
    Wrap(Plain("article", <<>>),
         Beside(Wrap(Plain("section", <<>>), Leaves(<<EntryPete, EntryFirstBase>>)),
                Wrap(Plain("section", <<>>), Leaves(<<EntryKodai>>)))),
    Wrap(Plain("article", <<>>),
         Beside(Beside(Leaves(<<EntryKodai>>), Wrap(Plain("section", <<>>), Leaves(<<EntryPete>>))),
                Wrap(Plain("section", <<>>), Leaves(<<EntryKodai>>)))),
    Wrap(Plain("article", <<>>),
         Beside(Wrap(Plain("div", <<"w","r","a","p","p","e","r">>), Wrap(Plain("section", <<>>), Leaves(<<EntryPete>>))),
                Leaves(<<EntryKodai>>))),
    Wrap(Plain("article", <<>>), Beside(<<Plain("section", <<>>)>>, Leaves(<<EntryPete>>))) }

\* entries under each spelling of the class attribute
ClassTexts ==
  { <<>>, <<"s","t","o","r","y","-","p","a","r","t">>, <<"m","a","r","k","d","o","w","n">>, <<"s","t","o","r","y","-","p","a","r","t"," ","m","a","r","k","d","o","w","n">>, <<"m","a","r","k","d","o","w","n"," ","s","t","o","r","y","-","p","a","r","t">>,
    <<"w","i","d","e"," ","s","t","o","r","y","-","p","a","r","t"," ","d","a","r","k"," ","m","a","r","k","d","o","w","n">>, <<"s","t","o","r","y","-","p","a","r","t","-","m","a","r","k","d","o","w","n">>, <<"s","t","o","r","y","-","p","a","r","t","m","a","r","k","d","o","w","n">>, <<"x","s","t","o","r","y","-","p","a","r","t"," ","m","a","r","k","d","o","w","n","x">>,
    <<"S","t","o","r","y","-","P","a","r","t"," ","M","a","r","k","d","o","w","n">>, <<"s","t","o","r","y"," ","p","a","r","t"," ","m","a","r","k","d","o","w","n">>, <<"s","t","o","r","y","-","p","a","r"," ","m","a","r","k","d","o","w","n">>, <<"s","t","o","r","y","-","p","a","r","t"," ","m","a","r","k","d","o","w">>,
    <<"a","r","t","i","c","l","e"," ","c","o","n","t","e","n","t">> }
ClassDocs ==
  {Wrap(Plain("article", <<>>),
        Leaves(<<Div(c, <<"C"," ","P","e","t","e"," ","A","l","o","n","s","o","I","n","j","u","r","y",":"," ","s","o","r","e"," ","k","n","e","e">>, <<<<"P","e","t","e"," ","A","l","o","n","s","o">>>>), EntryKodai>>)) :
     c \in ClassTexts}

Docs == ArticleDocs \cup SelectorDocs \cup FallbackDocs \cup SectionDocs \cup ClassDocs
\* the documents a scraper that has been used before is run on again
RepeatDocs ==
  { Wrap(Plain("article", <<>>), Leaves(<<EntryPete>>)),
    Wrap(Plain("article", <<>>), Leaves(<<EntryKodai, EntryFirstBase>>)),
    Wrap(Plain("p", <<>>), Leaves(<<EntryPete>>)) }

\* ------------------------------------------------------------------------
\* State
\* ------------------------------------------------------------------------
VARIABLES
  pc,               \* where scrape_mets_injuries is: "idle", "extract", or how it ended:
                    \* "done" (a return in the try block), "caught" (the return of an
                    \* except clause), "raised" (an exception left the function)
  doc,              \* the fetched document (soup)
  article_content,  \* the element the locator found, 0 for None
  found_by,         \* what the locator logged: the selector, "fallback method" or ""
  markdown_divs,    \* the divs with both classes, in document order
  i,                \* the loop index of _extract_structured_injury_info
  injury_data,      \* the list of player_info built by the loop
  origin,           \* history: origin[k] is the index in markdown_divs of the div injury_data[k] came from
  injured_players,  \* what scrape_mets_injuries returned
  error,            \* the exception raised in the try block, "" when none
  calls,            \* history: the number of calls of scrape_mets_injuries so far
  last              \* history: the list the call before this one returned, when it was
                    \* a call on the same document that ended in the try block, else None

VARIABLES
  spc,              \* where the stream of stream_team_injuries is: "closed", "loop"
                    \* (at "while True"), "sleep" (in asyncio.sleep), "ended"
  team,             \* the team of the request
  interval,         \* the interval of the request, in seconds
  events,           \* the events the generator has yielded, in order
  sleeps,           \* history: the number of sleeps that have ended
  waited            \* history: the seconds slept in all

scraper_vars == <<pc, doc, article_content, found_by, markdown_divs, i, injury_data, origin,
                  injured_players, error, calls, last>>
stream_vars == <<spc, team, interval, events, sleeps, waited>>
vars == <<scraper_vars, stream_vars>>

Init ==
  /\ pc = "idle"
  /\ doc = <<>>
  /\ article_content = 0
  /\ found_by = ""
  /\ markdown_divs = <<>>
  /\ i = 1
  /\ injury_data = <<>>
  /\ origin = <<>>
  /\ injured_players = <<>>
  /\ error = ""
  /\ calls = 0
  /\ last = None
  /\ spc = "closed"
  /\ team = <<>>
  /\ interval = 0
  /\ events = <<>>
  /\ sleeps = 0
  /\ waited = 0

\* the filters of one loop iteration, in the order of the code
PassesFilters(div) ==
  LET div_text == Strip(div.text)
  IN  /\ Len(div_text) > 0
      /\ ~IsSkipDiv(div_text)
      /\ StartsWithPosition(div_text)

\* what one loop iteration appends to injury_data: None or Some(parsed_info)
ExtractDiv(div) == IF PassesFilters(div) THEN ParsePlayerDiv(div) ELSE None

\* InjuredPlayer(name=data.get('name', 'Unknown'), ...): every key is in data
InjuredPlayer(data) ==
  [name |-> data.name, position |-> data.position, injury |-> data.injury,
   il_date |-> data.il_date, expected_return |-> data.expected_return,
   status |-> data.status, last_updated |-> data.last_updated]

\* a list that is kept from the call before
KeptList(old) == old
\* "injury_data = []" and "injured_players = []": the lists of a call are new
NewList(old) == <<>>

\* except requests.RequestException only
HandledRequestOnly(exception) == exception = "RequestException"
\* "except requests.RequestException" and "except Exception"
Handled(exception) == exception \in {"RequestException", "Exception"}

\* an except clause that returns the records of what was parsed so far
RecordsSoFar(data) == [k \in 1..Len(data) |-> InjuredPlayer(data[k])]
\* "return []" of the except clauses
ReturnOnError(data) == <<>>

\* a list where info is added only when it is not yet in it
AppendNew(data, info) == IF \E k \in 1..Len(data) : data[k] = info THEN data ELSE Append(data, info)
\* injury_data.append(parsed_info)
AppendInfo(data, info) == Append(data, info)

\* a loop that ends at the first div that gives no player_info
NextIndexOrEnd(index, parsed_info, n) == IF IsSome(parsed_info) THEN index + 1 ELSE n + 1
\* the for loop goes on to the next div, whatever the div gave
NextIndex(index, parsed_info, n) == index + 1

\* what the history keeps of the call before a call on document d
LastOn(d) == IF pc = "done" /\ doc = d THEN Some(injured_players) ELSE None

\* a call of scrape_mets_injuries whose fetch gives document d: up to the
\* loop of _extract_structured_injury_info, or to "return []" when no content
\* is found
Scrape(d) ==
  /\ pc # "extract"
  /\ calls < MaxCalls
  /\ calls' = calls + 1
  /\ last' = LastOn(d)
  /\ doc' = d
  /\ error' = ""
  /\ LET found == LocateContent(d)
     IN  /\ article_content' = found.at
         /\ found_by' = found.by
         /\ markdown_divs' = IF found.at = 0 THEN <<>>
                             ELSE FindMarkdownDivs(d, FindSection(d, found.at))
         /\ pc' = IF found.at = 0 THEN "done" ELSE "extract"
  /\ i' = 1
  /\ injury_data' = NewList(injury_data)
  /\ origin' = <<>>
  /\ injured_players' = NewList(injured_players)
  /\ UNCHANGED stream_vars

\* a call whose session.get or raise_for_status raises
FetchFails ==
  /\ pc # "extract"
  /\ calls < MaxCalls
  /\ calls' = calls + 1
  /\ last' = None
  /\ doc' = <<>>
  /\ error' = "RequestException"
  /\ pc' = IF Handled("RequestException") THEN "caught" ELSE "raised"
  /\ article_content' = 0
  /\ found_by' = ""
  /\ markdown_divs' = <<>>
  /\ i' = 1
  /\ injury_data' = NewList(injury_data)
  /\ origin' = <<>>
  /\ injured_players' = <<>>
  /\ UNCHANGED stream_vars

\* one iteration of "for i, div in enumerate(markdown_divs)"
ProcessDiv ==
  /\ pc = "extract"
  /\ i <= Len(markdown_divs)
  /\ LET parsed_info == ExtractDiv(markdown_divs[i])
     IN  /\ injury_data' = IF IsSome(parsed_info) THEN AppendInfo(injury_data, Val(parsed_info))
                           ELSE injury_data
         /\ origin' = IF IsSome(parsed_info) THEN Append(origin, i) ELSE origin
         /\ i' = NextIndex(i, parsed_info, Len(markdown_divs))
  /\ UNCHANGED <<pc, doc, article_content, found_by, markdown_divs, injured_players, error, calls, last>>
  /\ UNCHANGED stream_vars

\* an exception raised while the divs are parsed
ExtractFails ==
  /\ pc = "extract"
  /\ error' = "Exception"
  /\ pc' = IF Handled("Exception") THEN "caught" ELSE "raised"
  /\ injured_players' = ReturnOnError(injury_data)
  /\ UNCHANGED <<doc, article_content, found_by, markdown_divs, i, injury_data, origin, calls, last>>
  /\ UNCHANGED stream_vars

\* the end of the loop, "for data in injury_data" and "return injured_players"
Return ==
  /\ pc = "extract"
  /\ i > Len(markdown_divs)
  /\ injured_players' = [k \in 1..Len(injury_data) |-> InjuredPlayer(injury_data[k])]
  /\ pc' = "done"
  /\ UNCHANGED <<doc, article_content, found_by, markdown_divs, i, injury_data, origin, error, calls, last>>
  /\ UNCHANGED stream_vars

Next ==
  \/ \E d \in (IF calls = 0 THEN Docs ELSE RepeatDocs) : Scrape(d)
  \/ FetchFails
  \/ ProcessDiv
  \/ ExtractFails
  \/ Return

Spec == Init /\ [][Next]_vars

\* ------------------------------------------------------------------------
\* stream_team_injuries (src/http_server.py): the generator of the events
\* ------------------------------------------------------------------------
MaxIterations == 3

\* the keys of the team table of the scraper
available_teams == {<<"m","e","t","s">>, <<"d","o","d","g","e","r","s">>, <<"y","a","n","k","e","e","s">>}
\* team.lower() in available_teams
IsAvailable(t) == Lower(t) \in available_teams

\* the requests: interval is Query(30, ge=10, le=300)
Teams == {<<"m","e","t","s">>, <<"M","e","t","s">>, <<"D","O","D","G","E","R","S">>, <<"c","u","b","s">>, <<"m","e","t">>, <<>>}
Intervals == {10, 30, 300}

ErrorEvent(message) == [event |-> "error", data |-> message]
UpdateEvent(t) == [event |-> "injury_update", data |-> Lower(t)]

\* an except clause that leaves the loop
EndAfterException == "ended"
\* the except clause sleeps and the loop goes on
AfterException == "sleep"

\* the request arrives and the generator is started
OpenStream(t, n) ==
  /\ spc = "closed"
  /\ team' = t
  /\ interval' = n
  /\ spc' = "loop"
  /\ UNCHANGED <<events, sleeps, waited>>
  /\ UNCHANGED scraper_vars

\* the iteration for a team that is not in the table: one error event, break
Unsupported ==
  /\ spc = "loop"
  /\ ~IsAvailable(team)
  /\ events' = Append(events, ErrorEvent("not supported"))
  /\ spc' = "ended"
  /\ UNCHANGED <<team, interval, sleeps, waited>>
  /\ UNCHANGED scraper_vars

\* an iteration in which nothing is raised, up to the sleep
IterationSucceeds ==
  /\ spc = "loop"
  /\ IsAvailable(team)
  /\ Len(events) < MaxIterations
  /\ events' = Append(events, UpdateEvent(team))
  /\ spc' = "sleep"
  /\ UNCHANGED <<team, interval, sleeps, waited>>
  /\ UNCHANGED scraper_vars

\* an iteration in which get_team_info, scrape_team_injuries or the building
\* of the data raises, up to the sleep of the except clause
IterationRaises ==
  /\ spc = "loop"
  /\ IsAvailable(team)
  /\ Len(events) < MaxIterations
  /\ events' = Append(events, ErrorEvent("exception"))
  /\ spc' = AfterException
  /\ UNCHANGED <<team, interval, sleeps, waited>>
  /\ UNCHANGED scraper_vars

\* await asyncio.sleep(interval) ends
Sleep ==
  /\ spc = "sleep"
  /\ sleeps' = sleeps + 1
  /\ waited' = waited + interval
  /\ spc' = "loop"
  /\ UNCHANGED <<team, interval, events>>
  /\ UNCHANGED scraper_vars

StreamNext ==
  \/ \E t \in Teams, n \in Intervals : OpenStream(t, n)
  \/ Unsupported
  \/ IterationSucceeds
  \/ IterationRaises
  \/ Sleep

StreamSpec == Init /\ [][StreamNext]_vars

\* ------------------------------------------------------------------------
\* What the properties are stated with
\* ------------------------------------------------------------------------
CodeSet == {position_codes[k] : k \in 1..Len(position_codes)}
\* the stripped text of the k-th markdown div, and of the div record j came from
DivText(k) == Strip(markdown_divs[k].text)
SrcText(j) == DivText(origin[j])
\* the indices of the returned records that came from markdown div k
RecordsOf(k) == {j \in 1..Len(injured_players) : origin[j] = k}

\* the least position >= from where lit starts in text, or 0
FindLit(text, lit, from) ==
  LET ps == {p \in from..(Len(text) - Len(lit) + 1) : LitAt(text, p, lit, FALSE)}
  IN  IF ps = {} THEN 0 ELSE CHOOSE p \in ps : \A q \in ps : p <= q
\* the least position >= from where one of the markers starts, or the end of text
FieldEnd(text, from, markers) ==
  LET ps == {p \in from..Len(text) : \E m \in markers : LitAt(text, p, m, FALSE)}
  IN  IF ps = {} THEN Len(text) + 1 ELSE CHOOSE p \in ps : \A q \in ps : p <= q
\* the trimmed text from after the first label up to the first following marker
TextBetween(text, label, markers) ==
  LET s == FindLit(text, label, 1) + Len(label)
  IN  Strip(SubSeq(text, s, FieldEnd(text, s, markers) - 1))
ContainsAnyCase(text, lit) == \E p \in 1..(Len(text) - Len(lit) + 1) : LitAt(text, p, lit, TRUE)
BeginsWithCode(text) ==
  \E c \in CodeSet : LitAt(text, 1, c, FALSE) /\ Len(text) > Len(c) /\ text[Len(c) + 1] \in WhiteSpace
NonBlank(o) == IsSome(o) /\ Len(Strip(Val(o))) > 0

\* "<code> <First> <Last>Injury: <text>" with plain letters
WellFormedEntry(text, code) ==
  ReMatch(text, << Lit(code), Lit(<<" ">>), Cls(UpperAZ, 1, 1), Cls(LowerAZ, 1, -1), Lit(<<" ">>),
                   Cls(UpperAZ, 1, 1), Cls(LowerAZ, 1, -1), Lit(<<"I","n","j","u","r","y",":"," ">>),
                   Cls(LowerAZ \cup {" "}, 1, -1), Eos >>).ok
\* "<code> <Name>Injury: <text>" where <code> is one to three capitals and
\* <Name> is two or more tokens, each a capital and then small letters, plain
\* or with a diacritic; the match holds the name as group 1
ExtendedNameEntry(text) ==
  LET capital == UpperAZ \cup AccentedUpper
      small == LowerAZ \cup AccentedLower
  IN  ReMatch(text, << Cls(UpperAZ, 1, 3), Lit(<<" ">>),
                       Open(1), Cls(capital, 1, 1), Cls(small, 1, -1),
                         Rep(<<Lit(<<" ">>), Cls(capital, 1, 1), Cls(small, 1, -1)>>, 1, -1),
                       Close(1), Lit(<<"I","n","j","u","r","y",":"," ">>), Cls(LowerAZ \cup {" "}, 1, -1), Eos >>)
\* the whitespace-separated tokens of text, in order
RECURSIVE Tokens(_)
Tokens(text) ==
  LET t == LStrip(text)
      n == FieldEnd(t, 1, {<<w>> : w \in WhiteSpace}) - 1
  IN  IF Len(t) = 0 THEN <<>> ELSE <<SubSeq(t, 1, n)>> \o Tokens(SubSeq(t, n + 1, Len(t)))
\* "<code> <Token>Injury:..." with one capitalized token and no more
SingleTokenEntry(text) ==
  ReMatch(text, << Cls(UpperAZ \cup Digits, 1, 3), Cls(WhiteSpace, 1, -1), Cls(UpperAZ, 1, 1),
                   Cls(NameMore, 0, -1), Lit(<<"I","n","j","u","r","y",":">>) >>).ok
\* the selectors that select some element of the fetched document
MatchingSelectors ==
  {s \in 1..Len(article_selectors) : \E k \in 1..Len(doc) : Matches(doc[k], article_selectors[s])}
\* the trimmed flattened text of element k of the fetched document
FlatText(k) == Strip(GetText(doc, k))
HasKeyword(text) == \E word \in {<<"i","n","j","u","r","y">>, <<"i","n","j","u","r","e","d">>, <<"i","l">>} : ContainsAnyCase(text, word)
\* the divs of the fetched document with a keyword and more than MinTextLen characters
LongDivs ==
  {k \in 1..Len(doc) : doc[k].tag = "div" /\ Len(FlatText(k)) > MinTextLen /\ HasKeyword(FlatText(k))}
\* the div gives a player_info in the loop
IsAccepted(div) == IsSome(ExtractDiv(div))
\* the record of each div of a list of accepted divs
RecordsFrom(divs) == [k \in 1..Len(divs) |-> InjuredPlayer(Val(ExtractDiv(divs[k])))]
\* the list a call on document d returns when nothing is raised
ResultOf(d) ==
  LET found == LocateContent(d)
  IN  IF found.at = 0 THEN <<>>
      ELSE RecordsFrom(SelectSeq(FindMarkdownDivs(d, FindSection(d, found.at)), IsAccepted))
\* the class attribute holds the marker
Carries(class, marker) == FindLit(class, marker, 1) > 0
\* the section elements inside the content the locator found
Sections == {k \in Descendants(doc, article_content) : doc[k].tag = "section"}
\* element k is a div of the content with both markers whose text gives a record
IsEntryDiv(k) ==
  /\ IsUnder(doc, k, article_content)
  /\ doc[k].tag = "div"
  /\ Carries(doc[k].class, <<"s","t","o","r","y","-","p","a","r","t">>) /\ Carries(doc[k].class, <<"m","a","r","k","d","o","w","n">>)
  /\ IsAccepted([text |-> GetText(doc, k)])
\* the elements of the document the returned records came from
RecordPlaces == {markdown_divs[origin[j]].at : j \in 1..Len(injured_players)}
\* "(updated <Month>[.] <Day>)" with the word updated in any letter case
annotation_any_case ==
  <<LitI(<<"(","u","p","d","a","t","e","d">>), Cls(WhiteSpace, 1, -1), Open(1)>> \o MonthDay \o <<Close(1), Lit(<<")">>)>>
FirstAnnotation(text) ==
  LET m == ReSearch(text, annotation_any_case)
  IN  IF m.ok THEN Some(Group(text, m, 1)) ELSE None
HasAnnotation(text) == ReSearch(text, annotation_any_case).ok
HasMoreMarker(text) == ReSearch(text, <<Lit(<<"M","o","r","e">>), Cls(WhiteSpace, 0, -1), Lit(<<">",">">>)>>).ok

\* ------------------------------------------------------------------------
\* Properties
\* ------------------------------------------------------------------------

\* C1: a well-formed entry "<code> <First> <Last>Injury: <text>" of every code
\* of the recognized set passes the position gate and gives a record whose
\* position is that code.
C1_EveryGateCodeParses ==
  pc = "done" =>
    \A k \in 1..Len(markdown_divs) : \A c \in CodeSet :
      WellFormedEntry(DivText(k), c) =>
        /\ StartsWithPosition(DivText(k))
        /\ \E j \in RecordsOf(k) : injured_players[j].position = Some(c)

\* C2: a segment that passes the segmenter and does not match the primary
\* anchor is given to the fallback parse, and yields a record whenever the
\* fallback parse gives one.
C2_FallbackIsApplied ==
  pc = "done" =>
    \A k \in 1..Len(markdown_divs) :
      ( /\ PassesFilters(markdown_divs[k])
        /\ ~IsSome(ParsePlayerDiv(markdown_divs[k]))
        /\ IsSome(ParseStructuredInjuryParagraph(markdown_divs[k], markdown_divs[k].bold)) )
      => RecordsOf(k) # {}

\* C3: every returned record has a name, a position and an injury that are
\* not None and not empty after trimming.
C3_RequiredFieldsNonEmpty ==
  pc = "done" =>
    \A j \in 1..Len(injured_players) :
      /\ NonBlank(injured_players[j].name)
      /\ NonBlank(injured_players[j].position)
      /\ NonBlank(injured_players[j].injury)
\* a record is returned for an entry whose "Injury:" is followed at once by a marker
C3_Witness ==
  /\ pc = "done"
  /\ \E j \in 1..Len(injured_players) :
       FindLit(SrcText(j), <<"I","n","j","u","r","y",":"," ","I","L"," ","d","a","t","e",":">>, 1) > 0 /\ NonBlank(injured_players[j].injury)

\* C4: no record comes from a block whose trimmed text does not begin with a
\* recognized position code followed by whitespace, and the position of every
\* returned record is a code of the recognized set.
C4_PositionIsRecognizedCode ==
  pc = "done" =>
    \A j \in 1..Len(injured_players) :
      /\ BeginsWithCode(SrcText(j))
      /\ IsSome(injured_players[j].position)
      /\ Val(injured_players[j].position) \in CodeSet
\* a block starting with an upper-case token outside the set, which the anchor
\* pattern alone would accept, has been processed and gave no record
C4_Witness ==
  /\ pc = "done"
  /\ \E k \in 1..Len(markdown_divs) :
       /\ ~BeginsWithCode(DivText(k))
       /\ IsSome(ParsePlayerDiv(markdown_divs[k]))
       /\ RecordsOf(k) = {}

\* C5: a block whose text contains one of the denylist phrases, in any letter
\* case and at any offset, yields no record.
C5_DenylistBlocksYieldNothing ==
  pc = "done" =>
    \A k \in 1..Len(markdown_divs) :
      (\E n \in 1..Len(skip_phrases) : ContainsAnyCase(markdown_divs[k].text, skip_phrases[n]))
        => RecordsOf(k) = {}
\* a well-formed entry that starts with a code and holds a phrase in mixed case
\* has been processed and gave no record
C5_Witness ==
  /\ pc = "done"
  /\ \E k \in 1..Len(markdown_divs) :
       /\ ContainsAnyCase(DivText(k), <<"s","i","g","n"," ","u","p"," ","t","o"," ","r","e","c","e","i","v","e">>)
       /\ ~Contains(DivText(k), <<"s","i","g","n"," ","u","p"," ","t","o"," ","r","e","c","e","i","v","e">>)
       /\ StartsWithPosition(DivText(k))
       /\ IsSome(ParsePlayerDiv(markdown_divs[k]))
       /\ RecordsOf(k) = {}

\* C6: for a record whose segment contains "IL date:", il_date is the trimmed
\* text between "IL date:" and the first following "Expected return:" or
\* "Status:" (or the end), whatever the date text is.
C6_IlDateIsTextUpToMarker ==
  pc = "done" =>
    \A j \in 1..Len(injured_players) :
      FindLit(SrcText(j), <<"I","L"," ","d","a","t","e",":">>, 1) > 0 =>
        injured_players[j].il_date
          = Some(TextBetween(SrcText(j), <<"I","L"," ","d","a","t","e",":">>, {<<"E","x","p","e","c","t","e","d"," ","r","e","t","u","r","n",":">>, <<"S","t","a","t","u","s",":">>}))

\* C7: for a record whose segment contains "Expected return:", expected_return
\* is the trimmed text between "Expected return:" and the following "Status:"
\* (or the end), whatever the return text is.
C7_ReturnIsTextUpToStatus ==
  pc = "done" =>
    \A j \in 1..Len(injured_players) :
      FindLit(SrcText(j), <<"E","x","p","e","c","t","e","d"," ","r","e","t","u","r","n",":">>, 1) > 0 =>
        injured_players[j].expected_return
          = Some(TextBetween(SrcText(j), <<"E","x","p","e","c","t","e","d"," ","r","e","t","u","r","n",":">>, {<<"S","t","a","t","u","s",":">>}))

\* C8: the injury of a record is the trimmed text from after "Injury:" up to
\* the first of "IL date:", "Expected return:", "Status:" or the end, and holds
\* none of these three markers.
C8_InjuryStopsAtFirstMarker ==
  pc = "done" =>
    \A j \in 1..Len(injured_players) :
      /\ injured_players[j].injury
           = Some(TextBetween(SrcText(j), <<"I","n","j","u","r","y",":">>, {<<"I","L"," ","d","a","t","e",":">>, <<"E","x","p","e","c","t","e","d"," ","r","e","t","u","r","n",":">>, <<"S","t","a","t","u","s",":">>}))
      /\ \A m \in {<<"I","L"," ","d","a","t","e",":">>, <<"E","x","p","e","c","t","e","d"," ","r","e","t","u","r","n",":">>, <<"S","t","a","t","u","s",":">>} :
           ~Contains(Val(injured_players[j].injury), m)

\* C9: last_updated of a record is the "<Month>[.] <Day>" of the textually
\* first "(updated <Month>[.] <Day>)" of the segment, the word updated taken
\* in any letter case (None when the segment has no such annotation).
C9_LastUpdatedIsFirstAnnotation ==
  pc = "done" =>
    \A j \in 1..Len(injured_players) :
      injured_players[j].last_updated = FirstAnnotation(SrcText(j))

\* C10: the status of a record holds no "(updated <Month>[.] <Day>)" in any
\* letter case and no "More >>" marker.
C10_StatusHasNoAnnotation ==
  pc = "done" =>
    \A j \in 1..Len(injured_players) :
      IsSome(injured_players[j].status) =>
        /\ ~HasAnnotation(Val(injured_players[j].status))
        /\ ~HasMoreMarker(Val(injured_players[j].status))

\* C11: the status of a record is never empty or blank: when nothing is left
\* of the text after "Status:" once the annotation and the "More >>" marker
\* are removed and the rest is trimmed, the status is None.
C11_StatusNeverBlank ==
  pc = "done" =>
    \A j \in 1..Len(injured_players) :
      /\ IsSome(injured_players[j].status) => NonBlank(injured_players[j].status)
      /\ ( /\ FindLit(SrcText(j), <<"S","t","a","t","u","s",":">>, 1) > 0
           /\ CleanStatus(SubSeq(SrcText(j), FindLit(SrcText(j), <<"S","t","a","t","u","s",":">>, 1) + 7,
                                 Len(SrcText(j)))) = <<>> )
         => injured_players[j].status = None
\* a record is returned for an entry where only an annotation and a marker
\* follow "Status:", and its status is None
C11_Witness ==
  /\ pc = "done"
  /\ \E j \in 1..Len(injured_players) :
       /\ FindLit(SrcText(j), <<"S","t","a","t","u","s",":"," ","(","u","p","d","a","t","e","d">>, 1) > 0
       /\ injured_players[j].status = None

\* C12: an entry "<code> <Name>Injury: <text>" with a recognized all-letter
\* code gives a record whose name is <Name> for every name of two or more
\* capitalized tokens of plain or accented letters, the accented letter
\* standing anywhere in a token, also as its initial capital.
C12_ExtendedNamesAccepted ==
  pc = "done" =>
    \A k \in 1..Len(markdown_divs) :
      ( /\ BeginsWithCode(DivText(k))
        /\ ~IsSkipDiv(DivText(k))
        /\ ExtendedNameEntry(DivText(k)).ok )
      => \E j \in RecordsOf(k) :
           injured_players[j].name = Some(Group(DivText(k), ExtendedNameEntry(DivText(k)), 1))

\* C13: no record has a one-token name: an entry where a single capitalized
\* token stands between the code and "Injury:" gives no record, and the name
\* of every record is two or more whitespace-separated tokens that each start
\* with a capital, the last one ending right before "Injury:" in the block.
C13_NameHasTwoTokens ==
  pc = "done" =>
    /\ \A k \in 1..Len(markdown_divs) : SingleTokenEntry(DivText(k)) => RecordsOf(k) = {}
    /\ \A j \in 1..Len(injured_players) :
         LET name == Val(injured_players[j].name)
             tokens == Tokens(name)
             at == FindLit(SrcText(j), name, 1)
         IN  /\ IsSome(injured_players[j].name)
             /\ Len(tokens) >= 2
             /\ \A t \in 1..Len(tokens) : tokens[t][1] \in UpperAZ
             /\ at > 0
             /\ LitAt(SrcText(j), at + Len(name), <<"I","n","j","u","r","y",":">>, FALSE)
\* an entry with the one-token name Alonso has been processed and gave no
\* record, though it passes the filters of the loop
C13_Witness ==
  /\ pc = "done"
  /\ \E k \in 1..Len(markdown_divs) :
       /\ SingleTokenEntry(DivText(k))
       /\ PassesFilters(markdown_divs[k])
       /\ RecordsOf(k) = {}

\* C14: when some selector of the list selects an element, the content is
\* the first element in document order that the earliest such selector
\* selects, wherever the elements of later selectors are, and the fallback is
\* not used: it is used only when no selector selects anything.
C14_EarliestSelectorWins ==
  /\ MatchingSelectors # {} =>
       \E s \in MatchingSelectors :
         /\ \A t \in MatchingSelectors : s <= t
         /\ found_by = article_selectors[s].name
         /\ article_content # 0
         /\ Matches(doc[article_content], article_selectors[s])
         /\ \A k \in 1..(article_content - 1) : ~Matches(doc[k], article_selectors[s])
  /\ found_by = "fallback method" => MatchingSelectors = {}
\* a call has returned no record from the element of the earliest selector,
\* while a later selector selects an element that stands before it and the
\* fallback would have found a div
C14_Witness ==
  /\ pc = "done"
  /\ article_content # 0
  /\ found_by # "fallback method"
  /\ Len(markdown_divs) > 0
  /\ injured_players = <<>>
  /\ LongDivs # {}
  /\ \E t \in MatchingSelectors : \E k \in 1..(article_content - 1) :
       /\ article_selectors[t].name # found_by
       /\ Matches(doc[k], article_selectors[t])

\* C15: when no selector selects anything, the content is the first div in
\* document order whose trimmed flattened text has more than 500 characters
\* and holds "injury", "injured" or "il" in any letter case; when there is no
\* such div, nothing is found and the call returns the empty list.
C15_FallbackTakesFirstLongDiv ==
  (calls > 0 /\ error # "RequestException" /\ MatchingSelectors = {}) =>
    IF LongDivs # {}
    THEN /\ article_content \in LongDivs
         /\ \A k \in LongDivs : article_content <= k
         /\ found_by = "fallback method"
    ELSE /\ article_content = 0
         /\ found_by = ""
         /\ pc = "done"
         /\ injured_players = <<>>
\* the fallback has passed over a div of exactly 500 characters with a keyword
\* and taken a later div, from which a record has been returned
C15_Witness ==
  /\ pc = "done"
  /\ found_by = "fallback method"
  /\ Len(injured_players) > 0
  /\ \E k \in 1..(article_content - 1) :
       doc[k].tag = "div" /\ Len(FlatText(k)) = MinTextLen /\ HasKeyword(FlatText(k))

\* C16: the returned list has one record for each accepted div, in the order
\* of the divs in the document: it is as long as the number of accepted divs,
\* record j is the record of the j-th accepted div, and equal records of two
\* divs both stand in it.
C16_OneRecordPerSegmentInOrder ==
  pc = "done" =>
    LET accepted == {k \in 1..Len(markdown_divs) : IsAccepted(markdown_divs[k])}
    IN  /\ Len(injured_players) = Cardinality(accepted)
        /\ Len(origin) = Len(injured_players)
        /\ \A j \in 1..Len(injured_players) :
             /\ origin[j] \in accepted
             /\ injured_players[j] = InjuredPlayer(Val(ExtractDiv(markdown_divs[origin[j]])))
        /\ \A j1, j2 \in 1..Len(injured_players) :
             j1 < j2 => /\ origin[j1] < origin[j2]
                        /\ markdown_divs[origin[j1]].at < markdown_divs[origin[j2]].at
\* two equal records have been returned for two divs with the same text
C16_Witness ==
  /\ pc = "done"
  /\ \E j1, j2 \in 1..Len(injured_players) :
       j1 < j2 /\ injured_players[j1] = injured_players[j2]

C18_NoExceptionLeaves ==
  /\ pc # "raised"
  /\ error # "" => (pc = "caught" /\ injured_players = <<>>)
  /\ (pc = "done" /\ article_content = 0) => injured_players = <<>>
\* an exception raised after a div had given a player_info has been caught
C18_Witness ==
  /\ pc = "caught"
  /\ error = "Exception"
  /\ Len(injury_data) > 0
  /\ injured_players = <<>>

\* C19: a div that gives no player_info changes nothing for the others: the
\* loop goes on to the last div, and the returned list is the one of the
\* accepted divs alone, in their order.
C19_FailedSegmentIsSkipped ==
  pc = "done" =>
    /\ i = Len(markdown_divs) + 1
    /\ injured_players = RecordsFrom(SelectSeq(markdown_divs, IsAccepted))
\* a div that passed the filters and failed the parse stands before a div
\* whose record has been returned
C19_Witness ==
  /\ pc = "done"
  /\ \E k1, k2 \in 1..Len(markdown_divs) :
       /\ k1 < k2
       /\ PassesFilters(markdown_divs[k1])
       /\ ~IsSome(ParsePlayerDiv(markdown_divs[k1]))
       /\ RecordsOf(k2) # {}

\* C20: no record comes from a div whose class attribute does not hold both
\* "story-part" and "markdown", whatever its text is.
C20_OnlyMarkedDivsYieldRecords ==
  pc = "done" =>
    \A k \in 1..Len(doc) :
      ~(Carries(doc[k].class, <<"s","t","o","r","y","-","p","a","r","t">>) /\ Carries(doc[k].class, <<"m","a","r","k","d","o","w","n">>))
        => \A j \in 1..Len(injured_players) : markdown_divs[origin[j]].at # k
\* a div of the content with one of the two markers and the text of a full
\* entry has given no record, while another div has
C20_Witness ==
  /\ pc = "done"
  /\ Len(injured_players) > 0
  /\ \E k \in 1..Len(doc) :
       /\ doc[k].tag = "div"
       /\ IsUnder(doc, k, article_content)
       /\ Carries(doc[k].class, <<"s","t","o","r","y","-","p","a","r","t">>) # Carries(doc[k].class, <<"m","a","r","k","d","o","w","n">>)
       /\ IsAccepted([text |-> GetText(doc, k)])
       /\ \A j \in 1..Len(injured_players) : markdown_divs[origin[j]].at # k

\* C21: when the content holds a section element, records come only from
\* the divs inside its first section in document order, and the marked divs
\* outside it or in a later section give none; when it holds no section,
\* every marked div of the content that gives a record is in the list.
C21_OnlyFirstSectionIsSearched ==
  (pc = "done" /\ article_content # 0) =>
    IF Sections # {}
    THEN RecordPlaces = {k \in 1..Len(doc) : IsEntryDiv(k) /\ IsUnder(doc, k, First(Sections))}
    ELSE RecordPlaces = {k \in 1..Len(doc) : IsEntryDiv(k)}
\* records have been returned from the first section while a full entry
\* before the section and one in a later section gave none
C21_Witness ==
  /\ pc = "done"
  /\ article_content # 0
  /\ RecordPlaces # {}
  /\ \E k \in 1..Len(doc) : IsEntryDiv(k) /\ k < First(Sections) /\ k \notin RecordPlaces
  /\ \E s \in Sections : \E k \in 1..Len(doc) :
       s # First(Sections) /\ IsEntryDiv(k) /\ IsUnder(doc, k, s) /\ k \notin RecordPlaces

\* C22: a call returns all or nothing: the list of all accepted divs of the
\* document or the empty list, never a part of it; when an exception is
\* raised in the loop, the records of the divs accepted before are dropped
\* and the empty list is returned.
C22_AllOrNothing ==
  pc \in {"done", "caught", "raised"} =>
    /\ injured_players \in {<<>>, RecordsFrom(SelectSeq(markdown_divs, IsAccepted))}
    /\ error = "Exception" => injured_players = <<>>
\* an exception has been raised in the loop after one div had given a
\* player_info and before another accepted div was reached
C22_Witness ==
  /\ pc = "caught"
  /\ error = "Exception"
  /\ Len(injury_data) > 0
  /\ i <= Len(markdown_divs)
  /\ IsAccepted(markdown_divs[i])
  /\ injured_players = <<>>

====
